---- MODULE Spec2Model ----
(***************************************************************************)
(* Model of flashcard_creator_ai: generate_mcq_flashcards                  *)
(* (flashcard_generator.py) and the create_flashcards endpoint             *)
(* (api_server.py).                                                        *)
(*                                                                         *)
(* A Python str is a sequence of one-character strings, so that strip,    *)
(* split, lower, replace and the substring test are computed, not assumed. *)
(* The spaCy annotation of the text (doc) and the WordNet lemma names      *)
(* (lexicon) are inputs chosen in Init; random.shuffle and random.sample   *)
(* are nondeterministic choices.                                           *)
(***************************************************************************)
EXTENDS Integers, Sequences, FiniteSets, TLC

(* ------------------------------ bounds -------------------------------- *)

\* Longest document, in sentences.
MaxSents == 1

\* Largest num_distractors of a direct call (the endpoint uses the default).
MaxDistractors == 2

(* ------------------------- program constants -------------------------- *)

\* def generate_mcq_flashcards(doc_text, num_distractors=3)
DefaultNumDistractors == 3

\* len(data.text) < 50
MinTextLen == 50

\* len(answer_candidate.strip()) < 3
MinAnswerLen == 3

\* len(chunk.text) > 5
MinChunkChars == 5

\* len(other_ent.text.split()) < 4
MaxEntWords == 4

\* len(token.text) > 2
MinNounChars == 2

\* the blank written by sentence.replace(answer_candidate, "______", 1)
Marker == <<"_","_","_","_","_","_">>

\* f"Option {len(final_distractors) + 1}"
OptionPrefix == <<"O","p","t","i","o","n"," ">>

\* ent.label_ in [...]
AcceptedLabels ==
    {"GPE", "LOC", "ORG", "PERSON", "NORP", "FAC", "PRODUCT", "EVENT",
     "WORK_OF_ART", "LAW", "LANGUAGE", "PERCENT", "MONEY", "QUANTITY", "ORDINAL"}

\* Python's None (no str is equal to it).
None == <<"None">>

(* --------------------------- Python str ops ---------------------------- *)

UpperCase ==
    <<"A","B","C","D","E","F","G","H","I","J","K","L","M",
      "N","O","P","Q","R","S","T","U","V","W","X","Y","Z">>

LowerCase ==
    <<"a","b","c","d","e","f","g","h","i","j","k","l","m",
      "n","o","p","q","r","s","t","u","v","w","x","y","z">>

DigitChars == <<"0","1","2","3","4","5","6","7","8","9">>

lowerChar(c) ==
    IF \E k \in 1..26 : UpperCase[k] = c
    THEN LowerCase[CHOOSE k \in 1..26 : UpperCase[k] = c]
    ELSE c

\* str.lower()
lower(s) == [k \in 1..Len(s) |-> lowerChar(s[k])]

isSpace(c) == c = " "

\* str.strip()
strip(s) ==
    LET keep == {k \in 1..Len(s) : ~isSpace(s[k])}
    IN  IF keep = {} THEN <<>>
        ELSE LET lo == CHOOSE k \in keep : \A m \in keep : k <= m
                 hi == CHOOSE k \in keep : \A m \in keep : m <= k
             IN  SubSeq(s, lo, hi)

\* str.split(): the maximal runs of non-whitespace characters.
RECURSIVE splitFrom(_, _, _)
splitFrom(s, k, word) ==
    IF k > Len(s)
    THEN IF word = <<>> THEN <<>> ELSE <<word>>
    ELSE IF isSpace(s[k])
         THEN IF word = <<>> THEN splitFrom(s, k + 1, <<>>)
              ELSE <<word>> \o splitFrom(s, k + 1, <<>>)
         ELSE splitFrom(s, k + 1, Append(word, s[k]))

split(s) == splitFrom(s, 1, <<>>)

\* sub occurs in s at position k.
occursAt(s, sub, k) ==
    /\ k >= 1
    /\ k + Len(sub) - 1 <= Len(s)
    /\ \A m \in 1..Len(sub) : s[k + m - 1] = sub[m]

\* str.find(), 1-based; 0 when sub does not occur.
find(s, sub) ==
    IF \E k \in 1..(Len(s) + 1) : occursAt(s, sub, k)
    THEN CHOOSE k \in 1..(Len(s) + 1) :
            /\ occursAt(s, sub, k)
            /\ \A m \in 1..(k - 1) : ~occursAt(s, sub, m)
    ELSE 0

\* sub in s
contains(s, sub) == find(s, sub) # 0

\* s.replace(old, new, 1)
replaceFirst(s, old, new) ==
    LET k == find(s, old)
    IN  IF k = 0 THEN s
        ELSE SubSeq(s, 1, k - 1) \o new \o SubSeq(s, k + Len(old), Len(s))

\* s.replace("_", " ")
RECURSIVE replaceUnderscores(_)
replaceUnderscores(s) ==
    IF s = <<>> THEN <<>>
    ELSE <<IF Head(s) = "_" THEN " " ELSE Head(s)>> \o replaceUnderscores(Tail(s))

\* str(n) for n >= 0
RECURSIVE intToStr(_)
intToStr(n) ==
    IF n < 10 THEN <<DigitChars[n + 1]>>
    ELSE intToStr(n \div 10) \o <<DigitChars[(n % 10) + 1]>>

\* x in list
inList(x, list) == \E k \in 1..Len(list) : list[k] = x

\* [d.lower() for d in list]
lowerAll(list) == [k \in 1..Len(list) |-> lower(list[k])]

(* ------------------------------ inputs --------------------------------- *)

tx_Rome == <<"R","o","m","e">>
tx_1990 == <<"1","9","9","0">>
tx_RedCar == <<"r","e","d"," ","c","a","r">>
tx_car == <<"c","a","r">>
tx_OsloSp == <<"O","s","l","o"," ">>
tx_Option1 == <<"O","p","t","i","o","n"," ","1">>
tx_Urbs == <<"U","r","b","s">>
tx_urbs == <<"u","r","b","s">>
tx_AnOx == <<"a","n"," ","o","x">>
tx_ox == <<"o","x">>
tx_OldRome == <<"o","l","d"," ","R","o","m","e">>
tx_AnOxWasOld == <<"a","n"," ","o","x"," ","w","a","s"," ","o","l","d">>
tx_EU == <<"E","U">>
tx_Sp3 == <<" "," "," ">>
tx_red_car == <<"r","e","d","_","c","a","r">>

Ent(text, label) == [text |-> text, label_ |-> label]

Chunk(text, pos) == [text |-> text, root_pos_ |-> pos]

Tok(text, pos) == [text |-> text, pos_ |-> pos]

Sent(text, ents, chunks, tokens) ==
    [text |-> text, ents |-> ents, noun_chunks |-> chunks, tokens |-> tokens]

\* "1990 Rome red car Rome": an accepted entity after a DATE, beside a
\* qualifying noun chunk; the answer occurs twice.
S_Rome ==
    Sent(<<"1","9","9","0"," ","R","o","m","e"," ","r","e","d"," ","c","a","r"," ","R","o","m","e">>,
         <<Ent(tx_1990, "DATE"), Ent(tx_Rome, "GPE")>>,
         <<Chunk(tx_RedCar, "NOUN")>>,
         <<Tok(tx_Rome, "PROPN"), Tok(tx_car, "NOUN")>>)

\* "1990 red car": no accepted entity; the second noun chunk qualifies.
S_RedCar ==
    Sent(<<"1","9","9","0"," ","r","e","d"," ","c","a","r">>,
         <<Ent(tx_1990, "DATE")>>,
         <<Chunk(tx_car, "NOUN"), Chunk(tx_RedCar, "NOUN")>>,
         <<Tok(tx_car, "NOUN")>>)

\* "see Oslo ": the entity ends with a whitespace token that strip() removes
\* from the sentence.
S_Oslo ==
    Sent(<<"s","e","e"," ","O","s","l","o"," ">>,
         <<Ent(tx_OsloSp, "GPE")>>, <<>>, <<>>)

\* "Option 1 or ______": the text already holds a blank, and the answer
\* reads like a placeholder.
S_Option ==
    Sent(<<"O","p","t","i","o","n"," ","1"," ","o","r"," ","_","_","_","_","_","_">>,
         <<Ent(tx_Option1, "ORG")>>, <<>>, <<>>)

\* "Oslo won" annotated with the entity text "Urbs", which the text does
\* not hold in any case.
S_Absent ==
    Sent(<<"O","s","l","o"," ","w","o","n">>,
         <<Ent(tx_Urbs, "GPE")>>, <<>>, <<>>)

\* "  ": empty once stripped.
S_Empty == Sent(<<" "," ">>, <<>>, <<>>, <<>>)

\* "an ox was old Rome": no accepted entity and no qualifying chunk (one
\* of 5 characters, one headed by a proper noun).
S_NoAnswer ==
    Sent(<<"a","n"," ","o","x"," ","w","a","s"," ","o","l","d"," ","R","o","m","e">>,
         <<Ent(tx_AnOxWasOld, "DATE")>>,
         <<Chunk(tx_AnOx, "NOUN"), Chunk(tx_OldRome, "PROPN")>>,
         <<Tok(tx_ox, "NOUN")>>)

\* "EU won": an answer of 2 characters.
S_Short ==
    Sent(<<"E","U"," ","w","o","n">>, <<Ent(tx_EU, "ORG")>>, <<>>, <<>>)

\* "so   on": an entity made of whitespace.
S_Space ==
    Sent(<<"s","o"," "," "," ","o","n">>, <<Ent(tx_Sp3, "ORG")>>, <<>>, <<>>)

\* "ROME fell" annotated with the entity text "Rome": only a differently
\* cased variant of the answer occurs.
S_Cased ==
    Sent(<<"R","O","M","E"," ","f","e","l","l">>,
         <<Ent(tx_Rome, "GPE")>>, <<>>, <<>>)

Sentences ==
    {S_Rome, S_RedCar, S_Oslo, S_Option, S_Absent,
     S_Empty, S_NoAnswer, S_Short, S_Space, S_Cased}

\* The annotated documents: every sequence of at most MaxSents sentences.
Docs == UNION {[1..n -> Sentences] : n \in 0..MaxSents}

\* The lemma names of wordnet.synsets(word), synset after synset: none, one
\* name found in two synsets, or one compound name. Each leaves at most one
\* synonym, so the order of list(set(...)) does not arise.
Lexicons == {<<>>, <<tx_urbs, tx_urbs>>, <<tx_red_car>>}

\* len(data.text) of a request.
TextLens == {0, MinTextLen - 1, MinTextLen}

(* ---------------- flashcard_generator.py: pure helpers ----------------- *)

\* get_synonyms(word), given the lemma names of wordnet.synsets(word):
\* "_" becomes " ", the word itself is left out, the set keeps one of each.
RECURSIVE synonymsFrom(_, _, _)
synonymsFrom(word, names, acc) ==
    IF names = <<>> THEN acc
    ELSE LET synonym == replaceUnderscores(Head(names))
         IN  IF lower(synonym) # lower(word) /\ ~inList(synonym, acc)
             THEN synonymsFrom(word, Tail(names), Append(acc, synonym))
             ELSE synonymsFrom(word, Tail(names), acc)

get_synonyms(word, names) == synonymsFrom(word, names, <<>>)

\* not x, for x a str or None
falsy(x) == x = None \/ x = <<>>

\* Mutant of firstAcceptedEnt: the label is not looked at.
firstEntAnyLabel(ents) ==
    IF ents = <<>> THEN None ELSE Head(ents).text

\* Priority 1: the first entity whose label is accepted.
RECURSIVE firstAcceptedEnt(_)
firstAcceptedEnt(ents) ==
    IF ents = <<>> THEN None
    ELSE IF Head(ents).label_ \in AcceptedLabels THEN Head(ents).text
         ELSE firstAcceptedEnt(Tail(ents))

chunkQualifies(chunk) ==
    /\ Len(split(chunk.text)) > 1
    /\ Len(chunk.text) > MinChunkChars
    /\ chunk.root_pos_ = "NOUN"

\* Priority 2: the first noun chunk that qualifies.
RECURSIVE firstQualifyingChunk(_)
firstQualifyingChunk(chunks) ==
    IF chunks = <<>> THEN None
    ELSE IF chunkQualifies(Head(chunks)) THEN Head(chunks).text
         ELSE firstQualifyingChunk(Tail(chunks))

\* answer_candidate after both loops
pickAnswer(sent) ==
    LET fromEnts == firstAcceptedEnt(sent.ents)
    IN  IF falsy(fromEnts) THEN firstQualifyingChunk(sent.noun_chunks)
        ELSE fromEnts

\* Mutant of tooShort: the length is taken without strip().
tooShortUnstripped(answer) == Len(answer) < MinAnswerLen

\* not answer_candidate.strip() or len(answer_candidate.strip()) < 3
tooShort(answer) ==
    strip(answer) = <<>> \/ Len(strip(answer)) < MinAnswerLen

\* sentence.replace(answer_candidate, "______", 1)
maskAnswer(sentence, answer) == replaceFirst(sentence, answer, Marker)

\* answer_candidate.lower() in question_text.lower() and "______" not in question_text
maskRejected(answer, question) ==
    /\ contains(lower(question), lower(answer))
    /\ ~contains(question, Marker)

\* ' ' in answer_candidate
isPhrase(answer) == contains(answer, <<" ">>)

\* answer_candidate.split()[-1] raises IndexError on an empty list
targetRaises(answer) == isPhrase(answer) /\ split(answer) = <<>>

\* target_word_for_synonym
targetWord(answer) ==
    IF isPhrase(answer) THEN split(answer)[Len(split(answer))] ELSE answer

\* doc.ents
RECURSIVE docEnts(_)
docEnts(d) ==
    IF Len(d) = 0 THEN <<>>
    ELSE docEnts(SubSeq(d, 1, Len(d) - 1)) \o d[Len(d)].ents

\* the tokens of doc
RECURSIVE docTokens(_)
docTokens(d) ==
    IF Len(d) = 0 THEN <<>>
    ELSE docTokens(SubSeq(d, 1, Len(d) - 1)) \o d[Len(d)].tokens

RECURSIVE entCandidates(_, _)
entCandidates(ents, answer) ==
    IF ents = <<>> THEN <<>>
    ELSE LET other == Head(ents).text
         IN  IF lower(other) # lower(answer) /\ Len(split(other)) < MaxEntWords
             THEN <<other>> \o entCandidates(Tail(ents), answer)
             ELSE entCandidates(Tail(ents), answer)

RECURSIVE nounCandidates(_, _)
nounCandidates(tokens, answer) ==
    IF tokens = <<>> THEN <<>>
    ELSE LET t == Head(tokens)
         IN  IF /\ t.pos_ = "NOUN"
                /\ lower(t.text) # lower(answer)
                /\ Len(t.text) > MinNounChars
             THEN <<t.text>> \o nounCandidates(Tail(tokens), answer)
             ELSE nounCandidates(Tail(tokens), answer)

\* temp_distractors_from_text, before the shuffle
textCandidates(d, answer) ==
    entCandidates(docEnts(d), answer) \o nounCandidates(docTokens(d), answer)

\* the loop over the shuffled list: append what is not there yet, stop at 2 x n
RECURSIVE extendPool(_, _, _)
extendPool(possible, shuffled, n) ==
    IF shuffled = <<>> THEN possible
    ELSE IF inList(Head(shuffled), possible)
         THEN extendPool(possible, Tail(shuffled), n)
         ELSE LET grown == Append(possible, Head(shuffled))
              IN  IF Len(grown) >= n * 2 THEN grown
                  ELSE extendPool(grown, Tail(shuffled), n)

\* does the fallback run?
needsFallback(possible, n) == Len(possible) < n

\* final_distractors after the selection loop
RECURSIVE selectFrom(_, _, _, _)
selectFrom(possible, answer, n, final) ==
    IF possible = <<>> THEN final
    ELSE LET d == Head(possible)
         IN  IF lower(d) # lower(answer) /\ ~inList(lower(d), lowerAll(final))
             THEN LET grown == Append(final, d)
                  IN  IF Len(grown) >= n THEN grown
                      ELSE selectFrom(Tail(possible), answer, n, grown)
             ELSE selectFrom(Tail(possible), answer, n, final)

selectDistractors(possible, answer, n) == selectFrom(possible, answer, n, <<>>)

\* f"Option {k}"
placeholder(k) == OptionPrefix \o intToStr(k)

\* Mutant of padDistractors: no padding.
padDistractorsNone(final, n) == final

\* while len(final_distractors) < num_distractors: append a placeholder
RECURSIVE padDistractors(_, _)
padDistractors(final, n) ==
    IF Len(final) < n
    THEN padDistractors(Append(final, placeholder(Len(final) + 1)), n)
    ELSE final

removeAt(seq, k) == SubSeq(seq, 1, k - 1) \o SubSeq(seq, k + 1, Len(seq))

\* random.shuffle(list): every arrangement of the list
RECURSIVE shuffles(_)
shuffles(seq) ==
    IF seq = <<>> THEN {<<>>}
    ELSE UNION {{<<seq[k]>> \o rest : rest \in shuffles(removeAt(seq, k))} :
                k \in {m \in 1..Len(seq) : \A j \in 1..(m - 1) : seq[j] # seq[m]}}

\* random.sample(list, k): every choice of k positions, in every order
RECURSIVE samples(_, _)
samples(seq, k) ==
    IF k = 0 THEN {<<>>}
    ELSE UNION {{<<seq[m]>> \o rest : rest \in samples(removeAt(seq, m), k - 1)} :
                m \in 1..Len(seq)}

\* min(len(final_distractors), num_distractors)
sampleSize(final, n) == IF Len(final) < n THEN Len(final) ELSE n

\* options after random.sample and random.shuffle: every outcome
optionLists(answer, final, n) ==
    UNION {shuffles(<<answer>> \o sample) :
           sample \in samples(final, sampleSize(final, n))}

\* Mutant of makeCard: the answer is read from the head of the shuffled
\* options.
makeCardAnswerFromOptions(question, answer, options) ==
    [type |-> "mcq", question |-> strip(question), answer |-> strip(options[1]),
     options |-> options]

\* the dict appended to flashcards
makeCard(question, answer, options) ==
    [type |-> "mcq", question |-> strip(question), answer |-> strip(answer),
     options |-> options]

(* --------------------- api_server.py: validation ---------------------- *)

\* Mutant of textRejected: a text of exactly 50 characters is rejected too.
textRejectedOffByOne(len) == len = 0 \/ len <= MinTextLen

\* not data.text or len(data.text) < 50
textRejected(len) == len = 0 \/ len < MinTextLen

(* ------------------------------- state --------------------------------- *)

VARIABLES
    doc,                  \* nlp(doc_text): the annotated sentences
    lexicon,              \* the lemma names wordnet.synsets gives
    caller,               \* "none", "main" (a direct call) or "api"
    text_len,             \* len(data.text) of the request
    calls,                \* calls of generate_mcq_flashcards by the request
    response,             \* what create_flashcards answered
    call_no,              \* 1 in the first direct call, 2 in the repeated one
    prev_pairs,           \* the (question, answer) pairs the first call returned
    pc,                   \* position in the code
    exc,                  \* the exception raised, "none" if none
    num_distractors,
    i,                    \* index in doc.sents of the sentence at hand
    answer_candidate,
    question_text,
    possible_distractors,
    final_distractors,
    flashcards

vars ==
    <<doc, lexicon, caller, text_len, calls, response, call_no, prev_pairs, pc,
      exc, num_distractors, i, answer_candidate, question_text,
      possible_distractors, final_distractors, flashcards>>

inputs == <<doc, lexicon>>

api == <<text_len, calls, response>>

locals == <<answer_candidate, question_text, possible_distractors, final_distractors>>

NoResponse == [status_code |-> 0, message |-> FALSE, flashcards |-> <<>>]

\* [(card["question"], card["answer"]) for card in cards]
RECURSIVE pairs(_)
pairs(cards) ==
    IF cards = <<>> THEN <<>>
    ELSE <<<<Head(cards).question, Head(cards).answer>>>> \o pairs(Tail(cards))

Init ==
    /\ doc \in Docs
    /\ lexicon \in Lexicons
    /\ caller = "none"
    /\ text_len = 0
    /\ calls = 0
    /\ response = NoResponse
    /\ call_no = 0
    /\ prev_pairs = <<>>
    /\ pc = "idle"
    /\ exc = "none"
    /\ num_distractors = DefaultNumDistractors
    /\ i = 0
    /\ answer_candidate = None
    /\ question_text = <<>>
    /\ possible_distractors = <<>>
    /\ final_distractors = <<>>
    /\ flashcards = <<>>

(* ------------------------------ actions -------------------------------- *)

\* A direct call generate_mcq_flashcards(doc_text, n).
Call(n) ==
    /\ pc = "idle"
    /\ caller' = "main"
    /\ call_no' = 1
    /\ num_distractors' = n
    /\ pc' = "nlp"
    /\ UNCHANGED <<inputs, api, prev_pairs, exc, i, locals, flashcards>>

\* The same call once more, on the same text.
CallAgain ==
    /\ pc = "returned"
    /\ caller = "main"
    /\ call_no = 1
    /\ call_no' = 2
    /\ prev_pairs' = pairs(flashcards)
    /\ flashcards' = <<>>
    /\ i' = 0
    /\ pc' = "nlp"
    /\ UNCHANGED <<inputs, api, caller, exc, num_distractors, locals>>

\* create_flashcards(data): the validation, then the call with the default
\* num_distractors.
Request(len) ==
    /\ pc = "idle"
    /\ caller' = "api"
    /\ text_len' = len
    /\ \/ /\ textRejected(len)
          /\ response' = [status_code |-> 400, message |-> TRUE, flashcards |-> <<>>]
          /\ pc' = "responded"
          /\ UNCHANGED calls
       \/ /\ ~textRejected(len)
          /\ calls' = calls + 1
          /\ pc' = "nlp"
          /\ UNCHANGED response
    /\ num_distractors' = DefaultNumDistractors
    /\ UNCHANGED <<inputs, call_no, prev_pairs, exc, i, locals, flashcards>>

\* flashcards = []; doc = nlp(doc_text). The annotator answers or raises.
Annotate ==
    /\ pc = "nlp"
    /\ \/ /\ pc' = "loop"
          /\ i' = 1
          /\ flashcards' = <<>>
          /\ UNCHANGED exc
       \/ /\ exc' = "annotator"
          /\ pc' = "raised"
          /\ UNCHANGED <<i, flashcards>>
    /\ UNCHANGED <<inputs, api, caller, call_no, prev_pairs, num_distractors, locals>>

\* One pass of "for sent in doc.sents" up to the length check: the sentence
\* is skipped, or its answer candidate is kept.
PickSentence ==
    /\ pc = "loop"
    /\ i <= Len(doc)
    /\ LET sentence == strip(doc[i].text)
           answer == pickAnswer(doc[i])
       IN  IF sentence = <<>> \/ falsy(answer) \/ tooShort(answer)
           THEN /\ i' = i + 1
                /\ pc' = "loop"
                /\ answer_candidate' = None
           ELSE /\ answer_candidate' = answer
                /\ pc' = "mask"
                /\ UNCHANGED i
    /\ UNCHANGED <<inputs, api, caller, call_no, prev_pairs, exc, num_distractors,
                   question_text, possible_distractors, final_distractors, flashcards>>

\* The blank is written; a rejected sentence is skipped.
MaskSentence ==
    /\ pc = "mask"
    /\ LET question == maskAnswer(strip(doc[i].text), answer_candidate)
       IN  IF maskRejected(answer_candidate, question)
           THEN /\ i' = i + 1
                /\ pc' = "loop"
                /\ answer_candidate' = None
                /\ UNCHANGED question_text
           ELSE /\ question_text' = question
                /\ pc' = "synonyms"
                /\ UNCHANGED <<i, answer_candidate>>
    /\ UNCHANGED <<inputs, api, caller, call_no, prev_pairs, exc, num_distractors,
                   possible_distractors, final_distractors, flashcards>>

\* possible_distractors = get_synonyms(target_word_for_synonym). The lookup
\* answers or raises; split()[-1] raises on an empty list.
LookupSynonyms ==
    /\ pc = "synonyms"
    /\ IF targetRaises(answer_candidate)
       THEN /\ exc' = "IndexError"
            /\ pc' = "raised"
            /\ UNCHANGED possible_distractors
       ELSE \/ /\ possible_distractors' =
                      get_synonyms(targetWord(answer_candidate), lexicon)
               /\ pc' = "fallback"
               /\ UNCHANGED exc
            \/ /\ exc' = "wordnet"
               /\ pc' = "raised"
               /\ UNCHANGED possible_distractors
    /\ UNCHANGED <<inputs, api, caller, call_no, prev_pairs, num_distractors, i,
                   answer_candidate, question_text, final_distractors, flashcards>>

\* "if len(possible_distractors) < num_distractors": the entities and nouns
\* of the text, shuffled, extend the pool.
Fallback ==
    /\ pc = "fallback"
    /\ IF needsFallback(possible_distractors, num_distractors)
       THEN \E shuffled \in shuffles(textCandidates(doc, answer_candidate)) :
               possible_distractors' =
                   extendPool(possible_distractors, shuffled, num_distractors)
       ELSE UNCHANGED possible_distractors
    /\ pc' = "select"
    /\ UNCHANGED <<inputs, api, caller, call_no, prev_pairs, exc, num_distractors, i,
                   answer_candidate, question_text, final_distractors, flashcards>>

\* The selection loop, then the padding loop.
SelectDistractors ==
    /\ pc = "select"
    /\ final_distractors' =
           padDistractors(
               selectDistractors(possible_distractors, answer_candidate, num_distractors),
               num_distractors)
    /\ pc' = "assemble"
    /\ UNCHANGED <<inputs, api, caller, call_no, prev_pairs, exc, num_distractors, i,
                   answer_candidate, question_text, possible_distractors, flashcards>>

\* options = [answer] + random.sample(...); random.shuffle(options); the card
\* is appended and the loop goes on. The locals are dead from here on: each
\* is assigned again before it is read.
Assemble ==
    /\ pc = "assemble"
    /\ \E options \in optionLists(answer_candidate, final_distractors, num_distractors) :
          flashcards' =
              Append(flashcards, makeCard(question_text, answer_candidate, options))
    /\ i' = i + 1
    /\ pc' = "loop"
    /\ answer_candidate' = None
    /\ question_text' = <<>>
    /\ possible_distractors' = <<>>
    /\ final_distractors' = <<>>
    /\ UNCHANGED <<inputs, api, caller, call_no, prev_pairs, exc, num_distractors>>

\* return flashcards
Return ==
    /\ pc = "loop"
    /\ i > Len(doc)
    /\ pc' = "returned"
    /\ UNCHANGED <<inputs, api, caller, call_no, prev_pairs, exc, num_distractors, i,
                   locals, flashcards>>

\* create_flashcards after the call: the result, the message for an empty
\* result, or the HTTPException made from the exception caught.
Respond ==
    /\ caller = "api"
    /\ \/ /\ pc = "returned"
          /\ response' =
                 IF flashcards = <<>>
                 THEN [status_code |-> 200, message |-> TRUE, flashcards |-> <<>>]
                 ELSE [status_code |-> 200, message |-> FALSE, flashcards |-> flashcards]
       \/ /\ pc = "raised"
          /\ response' = [status_code |-> 500, message |-> TRUE, flashcards |-> <<>>]
    /\ pc' = "responded"
    /\ UNCHANGED <<inputs, text_len, calls, caller, call_no, prev_pairs, exc,
                   num_distractors, i, locals, flashcards>>

Next ==
    \/ \E n \in 1..MaxDistractors : Call(n)
    \/ CallAgain
    \/ \E len \in TextLens : Request(len)
    \/ Annotate
    \/ PickSentence
    \/ MaskSentence
    \/ LookupSynonyms
    \/ Fallback
    \/ SelectDistractors
    \/ Assemble
    \/ Return
    \/ Respond

Spec == Init /\ [][Next]_vars

(* ------------------------------- claims -------------------------------- *)

\* The options of a card that read like the answer, case-insensitively.
answerPositions(card) ==
    {m \in 1..Len(card.options) : lower(card.options[m]) = lower(card.answer)}

\* C1: in every flashcard the answer equals, case-insensitively, exactly one
\* option, and no two options are equal case-insensitively (placeholders
\* included).
C1_AnswerOnceNoDuplicates ==
    \A k \in 1..Len(flashcards) :
        LET card == flashcards[k]
        IN  /\ Cardinality(answerPositions(card)) = 1
            /\ \A m1, m2 \in 1..Len(card.options) :
                   m1 # m2 => lower(card.options[m1]) # lower(card.options[m2])

\* C2: every flashcard has exactly num_distractors + 1 options.
C2_OptionCount ==
    \A k \in 1..Len(flashcards) :
        Len(flashcards[k].options) = num_distractors + 1

\* C2 witness: a card of a call with two or more distractors, made when the
\* lookup gave nothing and the text offers no fallback: its distractors are
\* the placeholders.
C2_Witness ==
    /\ num_distractors >= 2
    /\ lexicon = <<>>
    /\ \E k \in 1..Len(flashcards) :
          /\ textCandidates(doc, flashcards[k].answer) = <<>>
          /\ \A m \in 1..num_distractors :
                 inList(placeholder(m), flashcards[k].options)

\* The number of non-overlapping occurrences of a non-empty sub in s.
RECURSIVE count(_, _)
count(s, sub) ==
    LET k == find(s, sub)
    IN  IF k = 0 THEN 0
        ELSE 1 + count(SubSeq(s, k + Len(sub), Len(s)), sub)

\* C3: the question of every flashcard holds the blank exactly once.
C3_OneBlank ==
    \A k \in 1..Len(flashcards) : count(flashcards[k].question, Marker) = 1

\* C4: the answer is not readable in the question of any flashcard.
C4_AnswerMasked ==
    \A k \in 1..Len(flashcards) :
        ~contains(flashcards[k].question, flashcards[k].answer)

\* The answer of the claim's picker: the first entity with an accepted
\* label, else the first noun chunk of more than one word, more than 5
\* characters and head NOUN, else None.
ExpectedAnswer(sent) ==
    LET accepted == {k \in 1..Len(sent.ents) : sent.ents[k].label_ \in AcceptedLabels}
        qualifying ==
            {k \in 1..Len(sent.noun_chunks) :
                /\ Len(split(sent.noun_chunks[k].text)) > 1
                /\ Len(sent.noun_chunks[k].text) > 5
                /\ sent.noun_chunks[k].root_pos_ = "NOUN"}
    IN  IF accepted # {}
        THEN sent.ents[CHOOSE k \in accepted : \A m \in accepted : k <= m].text
        ELSE IF qualifying # {}
             THEN sent.noun_chunks[CHOOSE k \in qualifying :
                                      \A m \in qualifying : k <= m].text
             ELSE None

\* The claim's reasons to skip a sentence: it is empty, it has no
\* acceptable candidate, the candidate trimmed is shorter than 3 characters,
\* or the masking is rejected.
ExpectedSkip(sent) ==
    LET a == ExpectedAnswer(sent)
        sentence == strip(sent.text)
    IN  \/ sentence = <<>>
        \/ a = None
        \/ Len(strip(a)) < 3
        \/ /\ ~contains(sentence, a)
           /\ ~contains(sentence, Marker)
           /\ contains(lower(sentence), lower(a))

\* C5: the only exceptions are those of the annotator and of the synonym
\* lookup, and a call that returns for a text whose sentences are all
\* skipped (or that has none) returns the empty list.
C5_NeverRaises ==
    /\ exc \in {"none", "annotator", "wordnet"}
    /\ pc = "raised" => exc # "none"
    /\ (pc = "returned" /\ \A k \in 1..Len(doc) : ExpectedSkip(doc[k]))
           => flashcards = <<>>

\* C5 witness: a call has returned the empty list for a text whose only
\* sentence has an entity made of whitespace.
C5_Witness ==
    /\ pc = "returned"
    /\ Len(doc) >= 1
    /\ \A k \in 1..Len(doc) : ExpectedSkip(doc[k])
    /\ \E k \in 1..Len(doc) : doc[k] = S_Space
    /\ flashcards = <<>>

\* C6: the pass over a sentence keeps the answer of the claim's picker, or
\* skips the sentence when there is none or it is shorter than 3 characters
\* trimmed; and the card made for a sentence has that answer, trimmed.
C6_AnswerPicked ==
    [][/\ (pc = "loop" /\ i <= Len(doc)) =>
              LET a == ExpectedAnswer(doc[i])
              IN  IF a = None \/ Len(strip(a)) < 3 \/ strip(doc[i].text) = <<>>
                  THEN pc' = "loop" /\ i' = i + 1 /\ flashcards' = flashcards
                  ELSE pc' = "mask" /\ i' = i /\ answer_candidate' = a
       /\ (pc = "assemble" /\ flashcards' # flashcards) =>
              /\ Len(flashcards') = Len(flashcards) + 1
              /\ flashcards'[Len(flashcards')].answer = strip(ExpectedAnswer(doc[i]))
       /\ (pc \in {"mask", "synonyms", "fallback", "select"}) =>
              (answer_candidate' = answer_candidate \/ flashcards' = flashcards)
       /\ (pc \in {"loop", "mask", "synonyms", "fallback", "select"}) =>
              flashcards' = flashcards]_vars

\* C6 witness: the entity "Rome" is kept for a sentence whose first entity
\* is a DATE and which has a qualifying noun chunk.
C6_Witness ==
    /\ pc = "mask"
    /\ doc[i] = S_Rome
    /\ answer_candidate = tx_Rome

C8_Responses ==
    pc = "responded" =>
        IF text_len < 50
        THEN response.status_code = 400 /\ calls = 0
        ELSE /\ calls = 1
             /\ exc # "none" => response.status_code = 500
             /\ (exc = "none" /\ flashcards = <<>>) =>
                    /\ response.status_code = 200
                    /\ response.message
                    /\ response.flashcards = <<>>
             /\ (exc = "none" /\ flashcards # <<>>) =>
                    /\ response.status_code = 200
                    /\ response.flashcards = flashcards

\* C8 witness: a request of 50 characters was answered 200 with the
\* message and no flashcards, after one call.
C8_Witness ==
    /\ pc = "responded"
    /\ text_len = 50
    /\ calls = 1
    /\ response.status_code = 200
    /\ response.message
    /\ response.flashcards = <<>>

\* C9: a sentence whose answer candidate does not occur in its text is
\* rejected by the masking: the code never goes on to the distractors with it.
C9_AbsentAnswerRejected ==
    pc \in {"synonyms", "fallback", "select", "assemble"} =>
        contains(doc[i].text, answer_candidate)

\* The strings the claim counts: the synonyms of the lookup key and the
\* fallback candidates of the text, as distinct lower-case strings other
\* than the answer.
upstreamCandidates(answer) ==
    LET all == get_synonyms(targetWord(answer), lexicon) \o textCandidates(doc, answer)
    IN  {lower(all[k]) : k \in 1..Len(all)} \ {lower(answer)}

\* C10: a placeholder is among the distractors only if fewer than
\* num_distractors upstream candidates exist.
C10_PlaceholderOnlyWhenShort ==
    (/\ pc = "assemble"
     /\ \E k \in 1..Len(final_distractors) : final_distractors[k] = placeholder(k))
        => Cardinality(upstreamCandidates(answer_candidate)) < num_distractors

====
